---- MODULE Spec2Model ----
(***************************************************************************)
(* Model of package auth (src/auth/jwt.go) of go-microservice-commons:     *)
(* NewJwtWrapper, GenerateToken and ValidateToken, together with the parts *)
(* of github.com/golang-jwt/jwt/v4 and of the Go standard library that     *)
(* these three functions call (src/auth/jwt.go:12, 55, 60-62, 72-82).      *)
(*                                                                         *)
(* Representation.                                                         *)
(*  - Time is counted in clock ticks.  A second has TicksPerSecond ticks,  *)
(*    so that time.Now() has sub-second resolution while a NumericDate is  *)
(*    truncated to whole seconds.                                          *)
(*  - time.Duration is a signed 64-bit count of nanoseconds and time.Hour  *)
(*    is 3.6e12 of them; TLC's integers are 32 bits wide, so the           *)
(*    model keeps the shape (a signed wrapping product) at a smaller       *)
(*    scale: Hour ticks per hour, DurationModulus values of a Duration.    *)
(*  - A Go string is a sequence of bytes.  Subject strings are sequences   *)
(*    over three kinds of content: "a", "b" (ordinary characters), "xFF"   *)
(*    (a byte that is not valid UTF-8) and "uFFFD" (the Unicode            *)
(*    replacement character).                                              *)
(*  - A token string is [n, h, c, s]: the number n of dot-separated        *)
(*    segments and, when n = 3, its header, claims and signature segment.  *)
(*    A segment records whether it is base64url (b64), whether its         *)
(*    content is JSON of the expected shape (json), and that content.      *)
(*  - HMAC is a symbolic function: Mac(alg, key, h, c) values are equal    *)
(*    exactly when algorithm, key and signed bytes are equal.  A signature *)
(*    segment is the base64url text of a MAC: its bytes, and the value     *)
(*    "spare" of the bits of its last character that carry no data (the    *)
(*    43 characters of an HS256 signature carry 258 bits for 256).         *)
(***************************************************************************)
EXTENDS Integers, Sequences, FiniteSets, TLC

VARIABLES
    now,          \* the wall clock, in ticks (time.Now())
    verifyFirst,  \* the jwt/v4 build: TRUE when the parser verifies the
                  \* signature before the claims (v4.5), FALSE when after
    svc,          \* the *JwtWrapper the host holds (ok = FALSE: none yet)
    issued,       \* the token most recently returned by GenerateToken
    last,         \* the call that has just returned, with its results
    procs,        \* concurrent callers: position and locals of each
    life          \* one token string followed through its calls: the
                  \* token, and an earlier ValidateToken call on it

vars == <<now, verifyFirst, svc, issued, last, procs, life>>

(***************************************************************************)
(* Bounds of the model and scaled program constants.                       *)
(***************************************************************************)
MaxTime == 5
MaxHours == 2
TicksPerSecond == 2
Hour == 4
DurationModulus == 16

Secrets == {"A", "B"}
Issuers == {"iss"}
HoursInputs == (-1) .. MaxHours
SubjectPairs == {<<<<>>, <<>>>>, <<<<"a">>, <<"b">>>>, <<<<"xFF">>, <<"b">>>>, <<<<"a">>, <<>>>>}

(***************************************************************************)
(* Values.                                                                 *)
(***************************************************************************)
\* *jwt.NumericDate: a nil pointer, or a time.
NilDate == [set |-> FALSE, t |-> 0]
Date(t) == [set |-> TRUE, t |-> t]

\* error: nil, or an error with its text and, for a *jwt.ValidationError,
\* the bits of its Errors field.
NoError == [isErr |-> FALSE, flags |-> {}, text |-> ""]
Error(flags, text) == [isErr |-> TRUE, flags |-> flags, text |-> text]

\* *JwtWrapper
NilWrapper == [ok |-> FALSE, SecretKey |-> "", Issuer |-> "", ExpirationHours |-> 0]
JwtWrapper(secretKey, issuer, expirationHours) ==
    [ok |-> TRUE, SecretKey |-> secretKey, Issuer |-> issuer,
     ExpirationHours |-> expirationHours]

\* *JwtClaim
NilClaim == [ok |-> FALSE, ID |-> <<>>, Email |-> <<>>, Issuer |-> "",
             ExpiresAt |-> NilDate, IssuedAt |-> NilDate, NotBefore |-> NilDate]
JwtClaim(id, email, issuer, exp, iat, nbf) ==
    [ok |-> TRUE, ID |-> id, Email |-> email, Issuer |-> issuer,
     ExpiresAt |-> exp, IssuedAt |-> iat, NotBefore |-> nbf]

(***************************************************************************)
(* Standard library: time, encoding/json, encoding/base64, crypto/hmac.    *)
(***************************************************************************)
\* A signed integer of the Duration's width: Go's multiplication wraps.
WrapDuration(x) ==
    ((x + DurationModulus \div 2) % DurationModulus) - DurationModulus \div 2

\* time.Hour * time.Duration(hours)
HoursDuration(hours) == WrapDuration(Hour * hours)

\* Time.Truncate(jwt.TimePrecision), TimePrecision = time.Second
TruncateToSecond(t) == (t \div TicksPerSecond) * TicksPerSecond

\* jwt.NewNumericDate(t)
NewNumericDate(t) == Date(TruncateToSecond(t))

\* encoding/json writes and reads strings as valid UTF-8: every byte that is
\* not is replaced by U+FFFD.
ToValidUTF8(s) == [i \in DOMAIN s |-> IF s[i] = "xFF" THEN "uFFFD" ELSE s[i]]

\* hmac.New(hash, key) over signingString = header segment "." claims segment
Mac(alg, key, h, c) == [alg |-> alg, key |-> key, h |-> h, c |-> c]
\* bytes that are the MAC of nothing
NoMac == [alg |-> "", key |-> "", h |-> <<>>, c |-> <<>>]

\* jwt.EncodeSegment: base64.RawURLEncoding, spare bits zero.
EncodeSegment(bytes) == [b64 |-> TRUE, bytes |-> bytes, spare |-> 0]
\* jwt.DecodeSegment: base64.RawURLEncoding.DecodeString, not Strict(): the
\* spare bits of the last character are not looked at.
DecodeSegment(seg) ==
    IF seg.b64 THEN [err |-> NoError, bytes |-> seg.bytes]
    ELSE [err |-> Error({}, "illegal base64 data"), bytes |-> NoMac]

(***************************************************************************)
(* Token segments.                                                         *)
(***************************************************************************)
NoAlg == "<absent>"
HMACMethods == {"HS256", "HS384", "HS512"}
\* the methods the library registers (jwt.GetSigningMethod)
RegisteredMethods == HMACMethods \cup {"RS256", "ES256", "none"}
HeaderAlgs == RegisteredMethods \cup {"XX", NoAlg}

HeaderSegment(alg) == [b64 |-> TRUE, json |-> TRUE, alg |-> alg]
ClaimsSegment(id, email, iss, exp, iat, nbf) ==
    [b64 |-> TRUE, json |-> TRUE, ID |-> id, Email |-> email, iss |-> iss,
     exp |-> exp, iat |-> iat, nbf |-> nbf]
Token(h, c, s) == [n |-> 3, h |-> h, c |-> c, s |-> s]
NoToken == [n |-> 0, h |-> HeaderSegment(NoAlg),
            c |-> ClaimsSegment(<<>>, <<>>, "", NilDate, NilDate, NilDate),
            s |-> EncodeSegment(NoMac)]

\* what SignedString and Verify compute: the bytes signed are the header and
\* claims segments as they stand in the token
SigningMac(alg, key, tok) ==
    Mac(alg, key, <<tok.h.b64, tok.h.json, tok.h.alg>>,
        <<tok.c.b64, tok.c.json, tok.c.ID, tok.c.Email, tok.c.iss,
          tok.c.exp, tok.c.iat, tok.c.nbf>>)

\* json.Marshal(claims) then EncodeSegment: ID and Email are always written,
\* the registered claims are written when set (omitempty).
MarshalClaims(claims) ==
    ClaimsSegment(ToValidUTF8(claims.ID), ToValidUTF8(claims.Email),
                  claims.Issuer, claims.ExpiresAt, claims.IssuedAt,
                  claims.NotBefore)

\* DecodeSegment then json.Decode into &JwtClaim{}
UnmarshalClaims(c) ==
    JwtClaim(ToValidUTF8(c.ID), ToValidUTF8(c.Email), c.iss, c.exp, c.iat, c.nbf)

(***************************************************************************)
(* github.com/golang-jwt/jwt/v4, as called from ValidateToken.             *)
(***************************************************************************)
\* Parser.ParseUnverified: split on ".", decode header and claims, look the
\* header's alg up among the registered signing methods.
ParseUnverified(tok) ==
    LET fail(e) == [err |-> e, method |-> NoAlg, claims |-> NilClaim] IN
    IF tok.n # 3
    THEN fail(Error({"Malformed"}, "token contains an invalid number of segments"))
    ELSE IF ~tok.h.b64 THEN fail(Error({"Malformed"}, "illegal base64 data"))
    ELSE IF ~tok.h.json THEN fail(Error({"Malformed"}, "invalid character"))
    ELSE IF ~tok.c.b64 THEN fail(Error({"Malformed"}, "illegal base64 data"))
    ELSE IF ~tok.c.json THEN fail(Error({"Malformed"}, "invalid character"))
    ELSE IF tok.h.alg = NoAlg
    THEN fail(Error({"Unverifiable"}, "signing method (alg) is unspecified."))
    ELSE IF tok.h.alg \notin RegisteredMethods
    THEN fail(Error({"Unverifiable"}, "signing method (alg) is unavailable."))
    ELSE [err |-> NoError, method |-> tok.h.alg, claims |-> UnmarshalClaims(tok.c)]

\* SigningMethod.Verify(signingString, signature, key) with the []byte key
\* that the key function returns: only the HMAC methods take such a key.
Verify(method, tok, key) ==
    IF method \notin HMACMethods THEN Error({}, "key is of invalid type")
    ELSE LET sig == DecodeSegment(tok.s) IN
         IF sig.err.isErr THEN sig.err
         ELSE IF sig.bytes = SigningMac(method, key, tok) THEN NoError
         ELSE Error({}, "signature is invalid")

\* ClaimsValid without the check of exp
ClaimsValidIgnoringExp(claims, t) ==
    LET iatBad == claims.IssuedAt.set /\ ~(t >= claims.IssuedAt.t)
        nbfBad == claims.NotBefore.set /\ ~(t >= claims.NotBefore.t)
        flags == (IF iatBad THEN {"IssuedAt"} ELSE {})
                 \cup (IF nbfBad THEN {"NotValidYet"} ELSE {})
        text == IF nbfBad THEN "token is not valid yet"
                ELSE "token used before issued"
    IN  IF flags = {} THEN NoError ELSE Error(flags, text)

\* ClaimsValid taking a token for valid at the instant of its expiration
ClaimsValidThroughExp(claims, t) ==
    LET expBad == claims.ExpiresAt.set /\ ~(t <= claims.ExpiresAt.t)
        iatBad == claims.IssuedAt.set /\ ~(t >= claims.IssuedAt.t)
        nbfBad == claims.NotBefore.set /\ ~(t >= claims.NotBefore.t)
        flags == (IF expBad THEN {"Expired"} ELSE {})
                 \cup (IF iatBad THEN {"IssuedAt"} ELSE {})
                 \cup (IF nbfBad THEN {"NotValidYet"} ELSE {})
        text == IF nbfBad THEN "token is not valid yet"
                ELSE IF iatBad THEN "token used before issued"
                ELSE "token is expired"
    IN  IF flags = {} THEN NoError ELSE Error(flags, text)

\* RegisteredClaims.Valid(): exp, iat and nbf are each checked when present;
\* a later failure replaces the text of an earlier one and adds its bit.
ClaimsValid(claims, t) ==
    LET expBad == claims.ExpiresAt.set /\ ~(t < claims.ExpiresAt.t)
        iatBad == claims.IssuedAt.set /\ ~(t >= claims.IssuedAt.t)
        nbfBad == claims.NotBefore.set /\ ~(t >= claims.NotBefore.t)
        flags == (IF expBad THEN {"Expired"} ELSE {})
                 \cup (IF iatBad THEN {"IssuedAt"} ELSE {})
                 \cup (IF nbfBad THEN {"NotValidYet"} ELSE {})
        text == IF nbfBad THEN "token is not valid yet"
                ELSE IF iatBad THEN "token used before issued"
                ELSE "token is expired"
    IN  IF flags = {} THEN NoError ELSE Error(flags, text)

(***************************************************************************)
(* src/auth/jwt.go                                                         *)
(***************************************************************************)
\* NewJwtWrapper (jwt.go:30-47)
NewJwtWrapper(secretKey, issuer, expirationHours) ==
    IF secretKey = ""
    THEN [w |-> NilWrapper, err |-> Error({}, "secret key must be set")]
    ELSE IF issuer = ""
    THEN [w |-> NilWrapper, err |-> Error({}, "issuer must be set")]
    ELSE IF expirationHours = 0
    THEN [w |-> NilWrapper,
          err |-> Error({}, "expiration hours must be greater than 0")]
    ELSE [w |-> JwtWrapper(secretKey, issuer, expirationHours), err |-> NoError]

\* The expiration GenerateToken writes (jwt.go:55)
ExpiresAtFor(w, t) == NewNumericDate(t + HoursDuration(w.ExpirationHours))

\* jwt.NewWithClaims(method, claims).SignedString(key) (jwt.go:60-62)
SignedString(method, claims, key) ==
    LET unsigned == Token(HeaderSegment(method), MarshalClaims(claims),
                          EncodeSegment(NoMac))
    IN  [unsigned EXCEPT !.s = EncodeSegment(SigningMac(method, key, unsigned))]

\* GenerateToken (jwt.go:50-68) called at time t
GenerateToken(w, uuid, email, t) ==
    LET claims == JwtClaim(uuid, email, w.Issuer, ExpiresAtFor(w, t),
                           NilDate, NilDate)
    IN  [token |-> SignedString("HS256", claims, w.SecretKey), err |-> NoError]

\* KeyFunc without its check of the signing method
KeyFuncUnchecked(w, method) ==
    [key |-> w.SecretKey, released |-> TRUE, err |-> NoError]

\* The key function handed to ParseWithClaims (jwt.go:75-81)
KeyFunc(w, method) ==
    IF method \notin HMACMethods
    THEN [key |-> "", released |-> FALSE,
          err |-> Error({}, "unexpected signing method")]
    ELSE [key |-> w.SecretKey, released |-> TRUE, err |-> NoError]

\* jwt.ParseWithClaims(signedToken, &JwtClaim{}, keyFunc) (jwt.go:72-82),
\* its clock read at time t, with the library build vf.
ParseWithClaims(w, tok, t, vf) ==
    LET pu == ParseUnverified(tok) IN
    IF pu.err.isErr THEN [claims |-> NilClaim, err |-> pu.err]
    ELSE
    LET kf == KeyFunc(w, pu.method) IN
    IF kf.err.isErr
    THEN [claims |-> NilClaim, err |-> Error({"Unverifiable"}, kf.err.text)]
    ELSE
    LET sigErr == Verify(pu.method, tok, kf.key)
        clErr == ClaimsValid(pu.claims, t)
        err == IF sigErr.isErr
               THEN Error({"SignatureInvalid"}
                          \cup (IF vf THEN {} ELSE clErr.flags), sigErr.text)
               ELSE clErr
    IN  [claims |-> IF err.isErr THEN NilClaim ELSE pu.claims, err |-> err]

\* The expiration check of ValidateToken (jwt.go:93), clock read at time t
ExpiredAt(claims, t) == claims.ExpiresAt.set /\ claims.ExpiresAt.t < t

\* ValidateToken handing the claims back beside its own "expired" error
ValidateTokenKeepingClaims(w, tok, t1, t2, vf) ==
    LET parsed == ParseWithClaims(w, tok, t1, vf) IN
    IF parsed.err.isErr THEN [claims |-> NilClaim, err |-> parsed.err]
    ELSE IF ExpiredAt(parsed.claims, t2)
    THEN [claims |-> parsed.claims, err |-> Error({}, "jwt is expired")]
    ELSE [claims |-> parsed.claims, err |-> NoError]

\* ValidateToken (jwt.go:71-98): the library reads the clock at t1, the
\* function's own check at t2 >= t1.
ValidateToken(w, tok, t1, t2, vf) ==
    LET parsed == ParseWithClaims(w, tok, t1, vf) IN
    IF parsed.err.isErr THEN [claims |-> NilClaim, err |-> parsed.err]
    ELSE IF ExpiredAt(parsed.claims, t2)
    THEN [claims |-> NilClaim, err |-> Error({}, "jwt is expired")]
    ELSE [claims |-> parsed.claims, err |-> NoError]

(***************************************************************************)
(* The tokens a caller presents to ValidateToken: the token the service    *)
(* issued, and what an outsider can make of it.                            *)
(***************************************************************************)
\* A token of some other issuer, for when nothing was issued yet.
ForeignToken ==
    SignedString("HS256",
                 JwtClaim(<<"a">>, <<"b">>, "other", Date(4), NilDate, NilDate),
                 "B")

\* claims c under header alg, signed with key
SignClaims(alg, key, c) ==
    LET unsigned == Token(HeaderSegment(alg), c, EncodeSegment(NoMac))
    IN  [unsigned EXCEPT !.s = EncodeSegment(SigningMac(alg, key, unsigned))]

\* the signature segment altered: in its spare bits only, into something
\* that is not base64url, or into the text of other bytes
TamperedSignature(tok) ==
    {[tok EXCEPT !.s.spare = k] : k \in 1 .. 3}
    \cup {[tok EXCEPT !.s.b64 = FALSE], [tok EXCEPT !.s.bytes = NoMac]}

\* the header's alg replaced, the signature kept
RelabelledAlg(tok) == {[tok EXCEPT !.h.alg = a] : a \in HeaderAlgs \ {tok.h.alg}}

\* the same claims under every registered algorithm, the signature segment
\* being the MAC of that algorithm under a key of keys
Resigned(tok, keys) ==
    {SignClaims(a, k, tok.c) : a \in RegisteredMethods, k \in keys}

\* claims with registered fields changed around time t
ClaimsVariants(c, t) ==
    {[c EXCEPT !.exp = NilDate], [c EXCEPT !.exp = Date(t)],
     [c EXCEPT !.nbf = Date(t + 2)], [c EXCEPT !.iat = Date(t + 2)],
     [c EXCEPT !.exp = Date(t - 2), !.nbf = Date(t + 2)]}

\* changed claims, signed with a key of keys or left with the old signature
Reclaimed(tok, keys, t) ==
    {SignClaims("HS256", k, c) : k \in keys, c \in ClaimsVariants(tok.c, t)}
    \cup {[tok EXCEPT !.c = c] : c \in ClaimsVariants(tok.c, t)}

\* strings that are not a token
Malformed(tok) ==
    {[tok EXCEPT !.n = k] : k \in {1, 2, 4}}
    \cup {[tok EXCEPT !.h.b64 = FALSE], [tok EXCEPT !.h.json = FALSE],
          [tok EXCEPT !.c.b64 = FALSE], [tok EXCEPT !.c.json = FALSE]}

Presented(base, t) ==
    {base} \cup TamperedSignature(base) \cup RelabelledAlg(base)
    \cup Resigned(base, Secrets) \cup Reclaimed(base, Secrets, t)
    \cup Malformed(base)

(***************************************************************************)
(* One caller: every call runs from entry to return without another call   *)
(* in between.  "last" holds the call that has just returned until the     *)
(* caller has taken its results.                                           *)
(***************************************************************************)
Procs == {"p1", "p2"}

\* a caller that is in no call
IdleProc == [pc |-> "idle", id |-> <<>>, email |-> <<>>, token |-> NoToken,
             claims |-> NilClaim, method |-> NoAlg, key |-> "",
             parsed |-> FALSE, released |-> FALSE, keyUsed |-> FALSE,
             t1 |-> 0, t2 |-> 0, err |-> NoError]

NoCall == [op |-> "none", w |-> NilWrapper, secret |-> "", issuer |-> "",
           hours |-> 0, id |-> <<>>, email |-> <<>>, token |-> NoToken,
           t1 |-> 0, t2 |-> 0, claims |-> NilClaim, err |-> NoError]

\* no token is followed
NoLife == [token |-> NoToken, earlier |-> NoCall]

Init ==
    /\ now = 0
    /\ verifyFirst \in BOOLEAN
    /\ svc = NilWrapper
    /\ issued = NoToken
    /\ last = NoCall
    /\ procs = <<>>
    /\ life = NoLife

\* time passes
Tick ==
    /\ last.op = "none"
    /\ now < MaxTime
    /\ now' = now + 1
    /\ UNCHANGED <<verifyFirst, svc, issued, last, procs, life>>

\* the host calls NewJwtWrapper and keeps what it returns
Construct ==
    /\ last.op = "none"
    /\ \E secretKey \in Secrets \cup {""}, issuer \in Issuers \cup {""},
          expirationHours \in HoursInputs :
          LET r == NewJwtWrapper(secretKey, issuer, expirationHours) IN
          /\ svc' = r.w
          /\ last' = [NoCall EXCEPT !.op = "new", !.w = r.w, !.err = r.err,
                                    !.secret = secretKey, !.issuer = issuer,
                                    !.hours = expirationHours,
                                    !.t1 = now, !.t2 = now]
    /\ UNCHANGED <<now, verifyFirst, issued, procs, life>>

\* a caller calls GenerateToken
Generate ==
    /\ last.op = "none"
    /\ svc.ok
    /\ \E pair \in SubjectPairs :
          LET r == GenerateToken(svc, pair[1], pair[2], now) IN
          /\ issued' = r.token
          /\ last' = [NoCall EXCEPT !.op = "gen", !.w = svc, !.id = pair[1],
                                    !.email = pair[2], !.token = r.token,
                                    !.err = r.err, !.t1 = now, !.t2 = now]
    /\ UNCHANGED <<now, verifyFirst, svc, procs, life>>

\* a caller calls ValidateToken; the clock may advance between the
\* library's reading of it and the function's own
Validate ==
    /\ last.op = "none"
    /\ svc.ok
    /\ \E tok \in Presented(IF issued.n = 3 THEN issued ELSE ForeignToken, now),
          t2 \in now .. now + 2 :
          LET r == ValidateToken(svc, tok, now, t2, verifyFirst) IN
          /\ t2 <= MaxTime
          /\ now' = t2
          /\ last' = [NoCall EXCEPT !.op = "val", !.w = svc, !.token = tok,
                                    !.claims = r.claims, !.err = r.err,
                                    !.t1 = now, !.t2 = t2]
    /\ UNCHANGED <<verifyFirst, svc, issued, procs, life>>

\* the caller takes the results of the call
Return ==
    /\ last.op # "none"
    /\ last' = NoCall
    /\ UNCHANGED <<now, verifyFirst, svc, issued, procs, life>>

Next == Tick \/ Construct \/ Generate \/ Validate \/ Return

Spec == Init /\ [][Next]_vars

(***************************************************************************)
(* Vocabulary of the claims.                                               *)
(***************************************************************************)
\* the spec's error kinds, read off the error ValidateToken returns
IsMalformedTokenError(e) == e.isErr /\ "Malformed" \in e.flags
IsUnsupportedAlgorithmError(e) == e.isErr /\ "Unverifiable" \in e.flags
IsInvalidSignatureError(e) == e.isErr /\ "SignatureInvalid" \in e.flags
TextContainsExpired(e) == e.text \in {"token is expired", "jwt is expired"}
IsExpiredTokenError(e) ==
    e.isErr /\ ("Expired" \in e.flags \/ e.text = "jwt is expired")

\* three segments whose header and claims decode to the expected structure
Decodes(tok) == tok.n = 3 /\ tok.h.b64 /\ tok.h.json /\ tok.c.b64 /\ tok.c.json
\* the signature segment is the text EncodeSegment gives the MAC under key
SignatureSegmentIsMac(tok, alg, key) ==
    tok.s = EncodeSegment(SigningMac(alg, key, tok))
\* the signature segment decodes to the MAC under key
SignatureBytesAreMac(tok, alg, key) ==
    tok.s.b64 /\ tok.s.bytes = SigningMac(alg, key, tok)
\* tok is what w.GenerateToken(id, email) returns at some time up to t
IssuedBy(w, id, email, tok, t) ==
    \E t0 \in 0 .. t : tok = GenerateToken(w, id, email, t0).token

(***************************************************************************)
(* C1 (round trip), as claimed: a service built with validityHours > 0     *)
(* validates, before the token's expiration time, every token it issued    *)
(* for any two strings, and returns claims with ID = subjectID and         *)
(* Email = subjectLabel.                                                   *)
(***************************************************************************)
C1_RoundTrip ==
    \A pair \in SubjectPairs :
        ( /\ last.op = "val"
          /\ last.w.ExpirationHours > 0
          /\ IssuedBy(last.w, pair[1], pair[2], last.token, last.t1)
          /\ last.t2 < last.token.c.exp.t )
        => ( /\ ~last.err.isErr
             /\ last.claims.ok
             /\ last.claims.ID = pair[1]
             /\ last.claims.Email = pair[2] )

(***************************************************************************)
(* C2 (algorithm pinning), as claimed: a token whose header declares any   *)
(* algorithm other than HS256 is rejected with UnsupportedAlgorithmError   *)
(* and no claims, even when its signature segment is a correct MAC under   *)
(* the configured secret for the declared algorithm.                       *)
(***************************************************************************)
C2_AlgorithmPinning ==
    ( /\ last.op = "val"
      /\ Decodes(last.token)
      /\ last.token.h.alg # "HS256"
      /\ SignatureSegmentIsMac(last.token, last.token.h.alg, last.w.SecretKey) )
    => IsUnsupportedAlgorithmError(last.err) /\ ~last.claims.ok

(***************************************************************************)
(* C3 (signature enforcement), as claimed: a well-formed HS256 token whose *)
(* signature segment differs from the MAC of its header and claims under   *)
(* the validating service's secret fails with InvalidSignatureError and    *)
(* returns no claims.                                                      *)
(***************************************************************************)
C3_SignatureEnforced ==
    ( /\ last.op = "val"
      /\ Decodes(last.token)
      /\ last.token.h.alg = "HS256"
      /\ ~SignatureSegmentIsMac(last.token, "HS256", last.w.SecretKey) )
    => IsInvalidSignatureError(last.err) /\ ~last.claims.ok

(***************************************************************************)
(* C4 (expiration enforcement).  The case: a well-formed, correctly signed *)
(* HS256 token whose expiration is at or before the time of the call.      *)
(***************************************************************************)
C4_Case ==
    /\ last.op = "val"
    /\ Decodes(last.token)
    /\ last.token.h.alg = "HS256"
    /\ SignatureBytesAreMac(last.token, "HS256", last.w.SecretKey)
    /\ last.token.c.exp.set
    /\ last.token.c.exp.t <= last.t1

\* a token the service itself issued, the service built with -1 hours
C4_MinusOneCase ==
    /\ last.op = "val"
    /\ last.w.ExpirationHours = -1
    /\ \E pair \in SubjectPairs :
          IssuedBy(last.w, pair[1], pair[2], last.token, last.t1)

\* C4 as claimed: in that case ValidateToken fails with an error whose text
\* contains "expired" and returns no claims.
C4_ExpiredText ==
    (C4_Case \/ C4_MinusOneCase)
    => ( /\ IsExpiredTokenError(last.err)
         /\ TextContainsExpired(last.err)
         /\ ~last.claims.ok )

\* C4 as amended: in that case ValidateToken fails with an error of the
\* expired kind and returns no claims; the text contains "expired" unless
\* the claims also carry an issued-at or not-before time later than the
\* time of the call, whose text then replaces it.
C4_ExpiredKind ==
    (C4_Case \/ C4_MinusOneCase)
    => ( /\ IsExpiredTokenError(last.err)
         /\ ~last.claims.ok
         /\ ( TextContainsExpired(last.err)
              \/ (last.token.c.iat.set /\ last.token.c.iat.t > last.t1)
              \/ (last.token.c.nbf.set /\ last.token.c.nbf.t > last.t1) ) )

\* a service built with -1 hours has rejected its own token as expired
C4_Witness ==
    /\ C4_MinusOneCase
    /\ C4_Case
    /\ IsExpiredTokenError(last.err)
    /\ ~last.claims.ok

(***************************************************************************)
(* C5 (construction guards), as claimed: NewJwtWrapper fails, returning no *)
(* service, when the secret is empty, the issuer is empty or the hours are *)
(* zero or negative, reporting the first violated condition; otherwise it  *)
(* returns a service holding the three inputs.  Every service has a        *)
(* non-empty secret, a non-empty issuer and positive hours.                *)
(***************************************************************************)
C5_ConstructionGuards ==
    /\ last.op = "new" =>
         IF last.secret = ""
         THEN ~last.w.ok /\ last.err.text = "secret key must be set"
         ELSE IF last.issuer = ""
         THEN ~last.w.ok /\ last.err.text = "issuer must be set"
         ELSE IF last.hours <= 0
         THEN ~last.w.ok
              /\ last.err.text = "expiration hours must be greater than 0"
         ELSE /\ ~last.err.isErr
              /\ last.w = JwtWrapper(last.secret, last.issuer, last.hours)
    /\ svc.ok => svc.SecretKey # "" /\ svc.Issuer # "" /\ svc.ExpirationHours > 0

(***************************************************************************)
(* C6 (malformed input, one result).  Exactly one of claims and error is   *)
(* returned.                                                               *)
(***************************************************************************)
C6_OneResult == last.op = "val" => (last.claims.ok <=> ~last.err.isErr)

\* C6 as claimed: every input that is not three base64url segments whose
\* header and claims decode to the expected structure fails with
\* MalformedTokenError, and every call returns exactly one of claims and
\* error.
C6_MalformedAll ==
    /\ ( last.op = "val" /\ ~(Decodes(last.token) /\ last.token.s.b64) )
       => IsMalformedTokenError(last.err) /\ ~last.claims.ok
    /\ C6_OneResult

\* C6 as amended: every input that is not three dot-separated segments, or
\* whose header or claims segment is not base64url or does not decode to
\* the expected structure, fails with MalformedTokenError; a token whose
\* header and claims decode and whose signature segment is not base64url
\* fails too, with another error kind; every call returns exactly one of
\* claims and error.
C6_MalformedHeaderOrClaims ==
    /\ ( last.op = "val" /\ ~Decodes(last.token) )
       => last.err.isErr /\ last.err.flags = {"Malformed"} /\ ~last.claims.ok
    /\ ( last.op = "val" /\ Decodes(last.token) /\ ~last.token.s.b64 )
       => last.err.isErr /\ ~IsMalformedTokenError(last.err) /\ ~last.claims.ok
    /\ C6_OneResult

\* "not-a-token": a single segment has been rejected as malformed
C6_Witness ==
    /\ last.op = "val"
    /\ last.token.n = 1
    /\ IsMalformedTokenError(last.err)
    /\ ~last.claims.ok

(***************************************************************************)
(* C7 (success guarantee), as claimed: whenever ValidateToken returns      *)
(* claims without error, the token's signature is the MAC of its header    *)
(* and claims under the configured secret and the claims carry an          *)
(* expiration that is present and later than the time of the call.         *)
(***************************************************************************)
C7_SuccessGuarantee ==
    ( last.op = "val" /\ ~last.err.isErr )
    => ( /\ SignatureBytesAreMac(last.token, last.token.h.alg, last.w.SecretKey)
         /\ last.claims.ExpiresAt.set
         /\ last.claims.ExpiresAt.t > last.t1 )

(***************************************************************************)
(* C10 (issued claims), as claimed for a service with positive hours: the  *)
(* token GenerateToken returns at time now is signed with HS256 under the  *)
(* configured secret, carries the configured issuer, and carries an        *)
(* expiration that is strictly in the future at issuance.                  *)
(***************************************************************************)
C10_IssuedClaims ==
    ( last.op = "gen" /\ last.w.ExpirationHours > 0 ) =>
        LET carried == UnmarshalClaims(last.token.c) IN
        /\ ~last.err.isErr
        /\ Decodes(last.token)
        /\ carried.Issuer = last.w.Issuer
        /\ carried.ExpiresAt.set
        /\ carried.ExpiresAt.t > last.t1
        /\ last.token.h.alg = "HS256"
        /\ SignatureSegmentIsMac(last.token, "HS256", last.w.SecretKey)

(***************************************************************************)
(* Concurrent callers sharing one service.  GenerateToken and              *)
(* ValidateToken take no lock, so the steps of the callers interleave.     *)
(* A step is a stretch of code between two reads of shared or outside      *)
(* state (the wrapper's fields, the clock).                                *)
(***************************************************************************)
\* the tokens presented in the concurrent runs
ConcPresented ==
    LET base == GenerateToken(svc, <<"a">>, <<"b">>, 0).token IN
    {base, [base EXCEPT !.s.spare = 1], [base EXCEPT !.s.bytes = NoMac],
     [base EXCEPT !.h.alg = "none"], [base EXCEPT !.h.alg = "XX"],
     SignClaims("RS256", svc.SecretKey, base.c),
     SignClaims("HS384", svc.SecretKey, base.c),
     SignClaims("HS256", svc.SecretKey, [base.c EXCEPT !.exp = NilDate]),
     [base EXCEPT !.n = 1], [base EXCEPT !.c.json = FALSE]}

ConcInit ==
    /\ now = 0
    /\ verifyFirst \in BOOLEAN
    /\ svc = NilWrapper
    /\ issued = NoToken
    /\ last = NoCall
    /\ procs = [p \in Procs |-> IdleProc]
    /\ life = NoLife

ConcTick ==
    /\ now < MaxTime
    /\ now' = now + 1
    /\ UNCHANGED <<verifyFirst, svc, issued, last, procs, life>>

\* construction happens once, before any call; "last" keeps its record
ConcConstruct ==
    /\ ~svc.ok
    /\ \E secretKey \in {"", "A"}, expirationHours \in {-1, 0, 1} :
          LET r == NewJwtWrapper(secretKey, "iss", expirationHours) IN
          /\ svc' = r.w
          /\ last' = [NoCall EXCEPT !.op = "new", !.w = r.w, !.err = r.err,
                                    !.secret = secretKey, !.issuer = "iss",
                                    !.hours = expirationHours]
    /\ UNCHANGED <<now, verifyFirst, issued, procs, life>>

\* p enters GenerateToken(ctx, uuid, email)
GenEnter(p) ==
    /\ svc.ok
    /\ procs[p].pc = "idle"
    /\ \E pair \in {<<<<"a">>, <<"b">>>>, <<<<"xFF">>, <<>>>>} :
          procs' = [procs EXCEPT ![p] = [IdleProc EXCEPT !.pc = "gen_claims",
                                           !.id = pair[1], !.email = pair[2]]]
    /\ UNCHANGED <<now, verifyFirst, svc, issued, last, life>>

\* GenClaims with the hours converted in place, in the shared wrapper
GenClaimsConvertingInPlace(p) ==
    /\ procs[p].pc = "gen_claims"
    /\ procs' = [procs EXCEPT ![p].pc = "gen_sign", ![p].t1 = now, ![p].t2 = now,
                   ![p].claims = JwtClaim(procs[p].id, procs[p].email,
                                          svc.Issuer, ExpiresAtFor(svc, now),
                                          NilDate, NilDate)]
    /\ svc' = [svc EXCEPT !.ExpirationHours = HoursDuration(@)]
    /\ UNCHANGED <<now, verifyFirst, issued, last, life>>

\* jwt.go:51-58: the claims, from the clock, j.ExpirationHours and j.Issuer
GenClaims(p) ==
    /\ procs[p].pc = "gen_claims"
    /\ procs' = [procs EXCEPT ![p].pc = "gen_sign", ![p].t1 = now, ![p].t2 = now,
                   ![p].claims = JwtClaim(procs[p].id, procs[p].email,
                                          svc.Issuer, ExpiresAtFor(svc, now),
                                          NilDate, NilDate)]
    /\ UNCHANGED <<now, verifyFirst, svc, issued, last, life>>

\* jwt.go:60-67: the token, signed with j.SecretKey
GenSign(p) ==
    /\ procs[p].pc = "gen_sign"
    /\ procs' = [procs EXCEPT ![p].pc = "gen_done",
                   ![p].token = SignedString("HS256", procs[p].claims,
                                             svc.SecretKey)]
    /\ UNCHANGED <<now, verifyFirst, svc, issued, last, life>>

\* p enters ValidateToken(ctx, signedToken)
ValEnter(p) ==
    /\ svc.ok
    /\ procs[p].pc = "idle"
    /\ \E tok \in ConcPresented :
          procs' = [procs EXCEPT ![p] = [IdleProc EXCEPT !.pc = "val_parse",
                                                        !.token = tok]]
    /\ UNCHANGED <<now, verifyFirst, svc, issued, last, life>>

\* ParseWithClaims, first part: the structural parse
ValParse(p) ==
    /\ procs[p].pc = "val_parse"
    /\ LET pu == ParseUnverified(procs[p].token) IN
       procs' = [procs EXCEPT
                   ![p].pc = IF pu.err.isErr THEN "val_done" ELSE "val_key",
                   ![p].parsed = ~pu.err.isErr,
                   ![p].method = pu.method,
                   ![p].claims = pu.claims,
                   ![p].err = pu.err]
    /\ UNCHANGED <<now, verifyFirst, svc, issued, last, life>>

\* ParseWithClaims, second part: the key function (jwt.go:75-81)
ValKey(p) ==
    /\ procs[p].pc = "val_key"
    /\ LET kf == KeyFunc(svc, procs[p].method) IN
       procs' = [procs EXCEPT
                   ![p].pc = IF kf.err.isErr THEN "val_done" ELSE "val_verify",
                   ![p].key = kf.key,
                   ![p].released = kf.released,
                   ![p].claims = IF kf.err.isErr THEN NilClaim ELSE procs[p].claims,
                   ![p].err = IF kf.err.isErr
                              THEN Error({"Unverifiable"}, kf.err.text)
                              ELSE NoError]
    /\ UNCHANGED <<now, verifyFirst, svc, issued, last, life>>

\* ParseWithClaims, third part: the signature is verified with the key and
\* the claims are validated against the clock, in the order of the build
ValVerify(p) ==
    /\ procs[p].pc = "val_verify"
    /\ LET sigErr == Verify(procs[p].method, procs[p].token, procs[p].key)
           clErr == ClaimsValid(procs[p].claims, now)
           err == IF sigErr.isErr
                  THEN Error({"SignatureInvalid"}
                             \cup (IF verifyFirst THEN {} ELSE clErr.flags),
                             sigErr.text)
                  ELSE clErr
       IN procs' = [procs EXCEPT
                      ![p].pc = IF err.isErr THEN "val_done" ELSE "val_expiry",
                      ![p].keyUsed = TRUE,
                      ![p].t1 = now, ![p].t2 = now,
                      ![p].claims = IF err.isErr THEN NilClaim ELSE procs[p].claims,
                      ![p].err = err]
    /\ UNCHANGED <<now, verifyFirst, svc, issued, last, life>>

\* jwt.go:83-97: the function's own expiration check, and the return
ValExpiry(p) ==
    /\ procs[p].pc = "val_expiry"
    /\ LET expired == ExpiredAt(procs[p].claims, now) IN
       procs' = [procs EXCEPT
                   ![p].pc = "val_done",
                   ![p].t2 = now,
                   ![p].claims = IF expired THEN NilClaim ELSE procs[p].claims,
                   ![p].err = IF expired THEN Error({}, "jwt is expired")
                              ELSE NoError]
    /\ UNCHANGED <<now, verifyFirst, svc, issued, last, life>>

\* the caller takes the results of its call
ConcReturn(p) ==
    /\ procs[p].pc \in {"gen_done", "val_done"}
    /\ procs' = [procs EXCEPT ![p] = IdleProc]
    /\ UNCHANGED <<now, verifyFirst, svc, issued, last, life>>

ConcNext ==
    \/ ConcTick
    \/ ConcConstruct
    \/ \E p \in Procs : GenEnter(p)
    \/ \E p \in Procs : GenClaims(p)
    \/ \E p \in Procs : GenSign(p)
    \/ \E p \in Procs : ValEnter(p)
    \/ \E p \in Procs : ValParse(p)
    \/ \E p \in Procs : ValKey(p)
    \/ \E p \in Procs : ValVerify(p)
    \/ \E p \in Procs : ValExpiry(p)
    \/ \E p \in Procs : ConcReturn(p)

SpecConc == ConcInit /\ [][ConcNext]_vars

(***************************************************************************)
(* C8 (concurrent use without synchronization): while callers interleave,  *)
(* the wrapper's three fields stay what NewJwtWrapper returned, and every  *)
(* finished call has the result the same call gives when run alone with    *)
(* the same clock readings.                                                *)
(***************************************************************************)
C8_ContextNeverWritten ==
    /\ svc.ok => (last.op = "new" /\ svc = last.w)
    /\ \A p \in Procs :
         /\ procs[p].pc = "gen_done" =>
              procs[p].token = GenerateToken(svc, procs[p].id, procs[p].email,
                                             procs[p].t1).token
         /\ procs[p].pc = "val_done" =>
              LET alone == ValidateToken(svc, procs[p].token, procs[p].t1,
                                         procs[p].t2, verifyFirst)
              IN  procs[p].claims = alone.claims /\ procs[p].err = alone.err

\* two calls overlapped: one validation has succeeded after a clock read
\* that is later than that of a generation still to be signed
C8_Witness ==
    \E p, q \in Procs :
        /\ p # q
        /\ procs[p].pc = "val_done"
        /\ procs[p].claims.ok
        /\ procs[q].pc = "gen_sign"
        /\ procs[q].t1 < procs[p].t1

(***************************************************************************)
(* C9 (check ordering in ValidateToken): the structural parse comes first; *)
(* the secret is released to the verifier only after the key function has  *)
(* accepted the header's algorithm; when it is not accepted the call ends  *)
(* in an error without the secret having been released or used.            *)
(***************************************************************************)
C9_AlgorithmCheckedBeforeSecret ==
    \A p \in Procs :
        /\ procs[p].pc \in {"val_key", "val_verify", "val_expiry"} => procs[p].parsed
        /\ procs[p].released => procs[p].parsed /\ procs[p].method \in HMACMethods
        /\ procs[p].key # "" => procs[p].released
        /\ procs[p].keyUsed => procs[p].released
        /\ ( procs[p].pc = "val_done" /\ procs[p].token.h.alg \notin HMACMethods )
           => ( /\ procs[p].err.isErr
                /\ ~procs[p].claims.ok
                /\ ~procs[p].released
                /\ ~procs[p].keyUsed
                /\ procs[p].key = "" )

\* a parsed token declaring "none" was turned away by the key function,
\* while another call was given the secret and used it
C9_Witness ==
    \E p, q \in Procs :
        /\ procs[p].pc = "val_done"
        /\ procs[p].parsed
        /\ procs[p].method = "none"
        /\ IsUnsupportedAlgorithmError(procs[p].err)
        /\ ~procs[p].released
        /\ procs[q].keyUsed
        /\ procs[q].released

(***************************************************************************)
(* One token string followed through its calls, on one service that is     *)
(* built once.  The caller takes a token in hand (the token the service    *)
(* issued, or what an outsider made of it) and presents that same string   *)
(* to ValidateToken again and again while the clock advances.  "life"      *)
(* keeps the string and any one of the earlier calls on it.                *)
(***************************************************************************)
\* the service is built once
LifeConstruct == ~svc.ok /\ Construct

\* the service issues one token, before a token is followed
LifeGenerate == issued = NoToken /\ life.token = NoToken /\ Generate

\* the caller takes the token string it will present from now on
LifeFollow ==
    /\ last.op = "none"
    /\ svc.ok
    /\ life.token = NoToken
    /\ \E tok \in Presented(IF issued.n = 3 THEN issued ELSE ForeignToken, now) :
          life' = [token |-> tok, earlier |-> NoCall]
    /\ UNCHANGED <<now, verifyFirst, svc, issued, last, procs>>

\* the caller calls ValidateToken on the followed string
LifeValidate ==
    /\ last.op = "none"
    /\ svc.ok
    /\ life.token # NoToken
    /\ \E t2 \in now .. now + 2 :
          LET r == ValidateToken(svc, life.token, now, t2, verifyFirst) IN
          /\ t2 <= MaxTime
          /\ now' = t2
          /\ last' = [NoCall EXCEPT !.op = "val", !.w = svc,
                                    !.token = life.token,
                                    !.claims = r.claims, !.err = r.err,
                                    !.t1 = now, !.t2 = t2]
    /\ UNCHANGED <<verifyFirst, svc, issued, procs, life>>

\* the caller takes the results of the call, and may keep those of one
\* ValidateToken call, any of them, to compare the later calls with
LifeReturn ==
    /\ last.op # "none"
    /\ last' = NoCall
    /\ \/ life' = life
       \/ /\ last.op = "val"
          /\ life.earlier = NoCall
          /\ life' = [life EXCEPT !.earlier = last]
    /\ UNCHANGED <<now, verifyFirst, svc, issued, procs>>

LifeNext ==
    Tick \/ LifeConstruct \/ LifeGenerate \/ LifeFollow \/ LifeValidate
    \/ LifeReturn

SpecLife == Init /\ [][LifeNext]_vars

(***************************************************************************)
(* C11 (token lifecycle is irreversible): for one service and one token    *)
(* string, with "earlier" any earlier ValidateToken call and "last" a      *)
(* later one:                                                              *)
(*  (a) once a call has failed as expired, the later call fails as         *)
(*      expired too;                                                       *)
(*  (b) once a call has failed for structure, algorithm or signature, the  *)
(*      later call fails with the same error kind and text;                *)
(*  (c) a token the service issued with positive hours and that validates  *)
(*      at its issuance validates in every call that ends before its       *)
(*      expiration and in no call that begins at or after it.              *)
(***************************************************************************)
\* the spec's error kind of an error, in the order of the steps of Validate
ErrorKind(e) ==
    IF ~e.isErr THEN "none"
    ELSE IF IsMalformedTokenError(e) THEN "MalformedTokenError"
    ELSE IF IsUnsupportedAlgorithmError(e) THEN "UnsupportedAlgorithmError"
    ELSE IF IsInvalidSignatureError(e) THEN "InvalidSignatureError"
    ELSE IF IsExpiredTokenError(e) THEN "ExpiredTokenError"
    ELSE "other"

\* "last" is a call on the followed token that came after the call "earlier"
C11_LaterCall ==
    /\ last.op = "val"
    /\ life.earlier.op = "val"
    /\ last.token = life.earlier.token
    /\ last.w = life.earlier.w
    /\ life.earlier.t2 <= last.t1

\* the followed token was issued by the service, built with positive hours,
\* and validates when presented at the instant of its issuance
C11_IssuedActive ==
    /\ last.op = "val"
    /\ last.w.ExpirationHours > 0
    /\ last.token = issued
    /\ \E pair \in SubjectPairs, t0 \in 0 .. last.t1 :
          /\ last.token = GenerateToken(last.w, pair[1], pair[2], t0).token
          /\ ValidateToken(last.w, last.token, t0, t0, verifyFirst).claims.ok

C11_LifecycleIrreversible ==
    /\ ( C11_LaterCall /\ IsExpiredTokenError(life.earlier.err) )
       => ( /\ IsExpiredTokenError(last.err)
            /\ ~last.claims.ok )
    /\ ( C11_LaterCall
         /\ ErrorKind(life.earlier.err) \in
               {"MalformedTokenError", "UnsupportedAlgorithmError",
                "InvalidSignatureError"} )
       => ( /\ ~last.claims.ok
            /\ ErrorKind(last.err) = ErrorKind(life.earlier.err)
            /\ last.err.text = life.earlier.err.text )
    /\ C11_IssuedActive
       => ( /\ last.t2 < last.token.c.exp.t
               => (last.claims.ok /\ ~last.err.isErr)
            /\ last.t1 >= last.token.c.exp.t
               => (IsExpiredTokenError(last.err) /\ ~last.claims.ok) )

\* an issued token was Active in an earlier call and is Expired in a later
\* one
C11_Witness ==
    /\ C11_LaterCall
    /\ C11_IssuedActive
    /\ life.earlier.claims.ok
    /\ life.earlier.t2 < last.token.c.exp.t
    /\ last.t1 >= last.token.c.exp.t
    /\ IsExpiredTokenError(last.err)

\* a token rejected for its signature was rejected again, for its signature,
\* after it had expired in the meantime
C11_WitnessRejected ==
    /\ C11_LaterCall
    /\ ErrorKind(life.earlier.err) = "InvalidSignatureError"
    /\ ErrorKind(last.err) = "InvalidSignatureError"
    /\ last.token.c.exp.set
    /\ life.earlier.t1 < last.token.c.exp.t
    /\ last.t1 >= last.token.c.exp.t

====
